---------------------------- MODULE Spec2Model ----------------------------
(***************************************************************************)
(* Model of the manifest capture engine, .github/scripts/capture_manifest.py *)
(*                                                                         *)
(* One run of run(opts): launch a browser, navigate, register the request  *)
(* and response handlers, wait, try to trigger playback, wait out the      *)
(* budget, save the session state, close, then print / write the result.   *)
(* Every await of the coroutine is one control position (pc); the browser  *)
(* may deliver request and response events while the controller is parked  *)
(* at an await.  Time is the value of now_ms() - start, in milliseconds;    *)
(* it advances by the timed waits (wait_for_timeout), every other browser  *)
(* call is taken to return at once.                                        *)
(***************************************************************************)
EXTENDS Integers, Sequences, FiniteSets, TLC

(***************************************************************************)
(* Bounds of the model.                                                    *)
(***************************************************************************)
MaxEvents == 2      \* network events the page delivers in one run
MaxFrames == 1      \* child frames of the page (page.frames minus main)

(***************************************************************************)
(* Program constants.                                                      *)
(***************************************************************************)
NumSelectors   == 9      \* len(COMMON_PLAY_SELECTORS)
IdleCapMs      == 8000   \* min(wait_ms, 8000)
MinPostClickMs == 1500   \* max(1500, click_after_ms)
ExitFailure    == 1      \* sys.exit(1), and python's status for a traceback
ExitSuccess    == 0      \* run() returned

TimedOutMsg   == "Page load timed out"              \* printed to stderr
NoManifestMsg == "No HLS .m3u8 manifest detected"   \* printed to stderr

(***************************************************************************)
(* URLs are sequences of characters, content types sequences of tokens     *)
(* (a word, ";" or " ").  None is python's None for a content type.        *)
(***************************************************************************)
None == <<"None">>
NoInfo == [written |-> FALSE]

UrlMasterA == <<"m","a","s","t","e","r",".","m","3","u","8","?","a">>
UrlMasterB == <<"m","a","s","t","e","r",".","m","3","u","8","?","b">>
UrlVariant == <<"v",".","m","3","u","8">>
UrlOther   == <<"p",".","j","s">>
UrlEmpty   == << >>

CtHls      == <<"application/x-mpegURL", ";", " ", "charset=utf-8">>
CtHtml     == <<"text/html">>
CtAbsent   == << >>

M3U8_CT == {"application/vnd.apple.mpegurl", "application/x-mpegURL", "audio/mpegurl"}

LowerNone(c) == c

\* re.IGNORECASE over the characters the model's URLs use
Lower(c) == CASE c = "M" -> "m" [] c = "U" -> "u" [] OTHER -> c

PatLiteral == <<".", "m", "3", "u", "8">>

MatchAtEndOnly(url, i) ==
    /\ i + Len(PatLiteral) - 1 = Len(url)
    /\ \A k \in 1..Len(PatLiteral) : Lower(url[i + k - 1]) = PatLiteral[k]

\* one match of  \.m3u8(\?|$)  starting at position i
MatchAt(url, i) ==
    /\ i + Len(PatLiteral) - 1 <= Len(url)
    /\ \A k \in 1..Len(PatLiteral) : Lower(url[i + k - 1]) = PatLiteral[k]
    /\ \/ i + Len(PatLiteral) > Len(url)
       \/ url[i + Len(PatLiteral)] = "?"

\* M3U8_PAT.search(url)
M3U8_PAT_search(url) == \E i \in 1..Len(url) : MatchAt(url, i)

SplitFirstWhole(ct) == ct

\* content_type.split(";")[0]
SplitFirst(ct) ==
    LET cut == {i \in 1..Len(ct) : ct[i] = ";"}
    IN  IF cut = {} THEN ct
        ELSE SubSeq(ct, 1, (CHOOSE i \in cut : \A j \in cut : i <= j) - 1)

\* str.strip()
RECURSIVE Strip(_)
Strip(s) ==
    IF s = << >> THEN s
    ELSE IF Head(s) = " " THEN Strip(Tail(s))
    ELSE IF s[Len(s)] = " " THEN Strip(SubSeq(s, 1, Len(s) - 1))
    ELSE s

\* truthiness of an Optional[str]
Truthy(s) == s # None /\ s # << >>

looks_like_m3u8(url, content_type) ==
    \/ M3U8_PAT_search(url)
    \/ /\ Truthy(content_type)
       /\ LET ct == Strip(SplitFirst(content_type))
          IN  Len(ct) = 1 /\ ct[1] \in M3U8_CT

(***************************************************************************)
(* The ledger: found, a list of dicts {url, content_type, source}.         *)
(***************************************************************************)
IsDupNever(ledger, url) == FALSE

\* any(x["url"] == url for x in found)
IsDup(ledger, url) == \E i \in 1..Len(ledger) : ledger[i].url = url

Candidate(kind, url, ct) ==
    [url |-> url, content_type |-> IF Truthy(ct) THEN ct ELSE << >>, source |-> kind]

maybe_add_LastWins(ledger, kind, url, ct) ==
    IF url = << >> \/ ~looks_like_m3u8(url, ct) THEN ledger
    ELSE IF IsDup(ledger, url)
         THEN [i \in 1..Len(ledger) |->
                  IF ledger[i].url = url THEN Candidate(kind, url, ct)
                  ELSE ledger[i]]
         ELSE Append(ledger, Candidate(kind, url, ct))

\* the list after maybe_add(kind, url, ct)
maybe_add(ledger, kind, url, ct) ==
    IF url = << >> THEN ledger
    ELSE IF looks_like_m3u8(url, ct) /\ ~IsDup(ledger, url)
         THEN Append(ledger, Candidate(kind, url, ct))
         ELSE ledger

(***************************************************************************)
(* What the page can deliver.                                              *)
(***************************************************************************)
RequestUrls == {UrlMasterA, UrlMasterB, UrlVariant, UrlOther}

ResponseEvents == { <<UrlMasterA, CtHls>>, <<UrlOther, CtHls>>,
                    <<UrlOther, CtHtml>>, <<UrlOther, CtAbsent>>,
                    <<UrlEmpty, CtHls>> }

WaitChoices       == {2000, 15000}     \* --wait
AfterClickChoices == {1000, 4000}      \* --after-click-wait

VARIABLES
    pc,             \* the await the controller is parked at
    wait_ms,        \* opts.wait
    click_after_ms, \* opts.after_click_wait
    nFrames,        \* child frames of the page
    nav,            \* "pending" | "ok" | "timeout" | "error"
    registered,     \* page.on(...) has run
    found,          \* the ledger (aliased by manifests after the return)
    elapsed,        \* now_ms() - start when the current await began
    frame,          \* frame being activated: 0 the page, 1..nFrames children
    sel,            \* index into COMMON_PLAY_SELECTORS
    actCalls,       \* calls of click_play_in_frame so far
    browser,        \* "none" | "open" | "closed"
    closeCalls,     \* completed browser.close() calls
    teardowns,      \* times the browser went from open to closed
    pending,        \* what is propagating out of the async-with block
    stderr,         \* error message printed
    exit,           \* "running" | "returned" | "sys_exit" | "exception"
    exitStatus,     \* process exit status once the run has ended
    session_info,   \* what write_json wrote, or NoInfo
    nEvents,        \* events delivered so far
    issued,         \* manifest request URLs the page issued before the deadline
    firsts,         \* first handled observation of each candidate URL, in order
    cUrl,           \* looks_like_m3u8 on its own: the url argument
    cCt,            \* the content_type argument
    cOut,           \* "unset", then "accept" or "reject": what it returned
    handlerError,   \* where the handler of the last event raised, or "none"
    gesture         \* click_play_in_frame, at its wait: what was delivered
                    \* to the frame, "click", "space", "center" or "failed"

vars == << pc, wait_ms, click_after_ms, nFrames, nav, registered, found, elapsed,
           frame, sel, actCalls, browser, closeCalls, teardowns, pending, stderr,
           exit, exitStatus, session_info, nEvents, issued, firsts,
           cUrl, cCt, cOut, handlerError, gesture >>

clsVars  == << cUrl, cCt, cOut >>
optVars  == << wait_ms, click_after_ms, nFrames, clsVars, handlerError >>
obsVars  == << registered, found, nEvents, issued, firsts >>
actVars  == << frame, sel, actCalls, gesture >>
sessVars == << browser, closeCalls, teardowns >>
endVars  == << stderr, exit, exitStatus, session_info >>

\* a run that has not started
Fresh ==
    /\ nav = "pending"
    /\ registered = FALSE
    /\ found = << >>
    /\ elapsed = 0
    /\ frame = 0
    /\ sel = 0
    /\ actCalls = 0
    /\ gesture = "none"
    /\ browser = "none"
    /\ closeCalls = 0
    /\ teardowns = 0
    /\ pending = "none"
    /\ stderr = "none"
    /\ exit = "running"
    /\ exitStatus = -1
    /\ session_info = NoInfo
    /\ nEvents = 0
    /\ issued = {}
    /\ firsts = << >>
    /\ handlerError = "none"

\* no call of the classifier on its own
NoCall ==
    /\ cUrl = << >>
    /\ cCt = None
    /\ cOut = "unset"

Init ==
    /\ pc = "launch"
    /\ wait_ms \in WaitChoices
    /\ click_after_ms \in AfterClickChoices
    /\ nFrames \in 0..MaxFrames
    /\ Fresh
    /\ NoCall


(***************************************************************************)
(* Network events.  The browser delivers them while the controller is at   *)
(* an await and the page exists; a handler runs to completion before the   *)
(* controller resumes.  Before page.on(...) has run nothing is listening.  *)
(***************************************************************************)
PageAlivePcs ==
    { "goto", "nav_close", "consent", "wait_dcl", "wait_netidle", "idle_wait",
      "query", "click", "focus", "press", "post_click", "evaluate", "mouse",
      "fallback_wait", "post_clicks_wait", "final_wait", "storage_state", "close" }

Urls(ledger) == { ledger[i].url : i \in 1..Len(ledger) }

BeforeDeadline == ~registered \/ elapsed < wait_ms

ListeningBetweenActions ==
    /\ registered
    /\ pc \notin { "query", "click", "focus", "press", "post_click", "evaluate",
                   "mouse", "fallback_wait" }

\* page.on(...) is never undone: the handlers stay attached at every await
Listening == registered

Deliver(kind, url, ct) ==
    /\ pc \in PageAlivePcs
    /\ browser = "open"
    /\ nEvents < MaxEvents
    /\ nEvents' = nEvents + 1
    /\ found' = IF Listening THEN maybe_add(found, kind, url, ct) ELSE found
    /\ issued' = IF kind = "request" /\ url # << >> /\ looks_like_m3u8(url, None)
                    /\ BeforeDeadline
                 THEN issued \cup {url} ELSE issued
    /\ firsts' = IF registered /\ url # << >> /\ looks_like_m3u8(url, ct)
                    /\ url \notin Urls(firsts)
                 THEN Append(firsts, Candidate(kind, url, ct)) ELSE firsts
    /\ UNCHANGED << pc, optVars, nav, registered, elapsed, actVars, sessVars,
                    pending, endVars >>

\* page.on("request", lambda req: maybe_add("request", req.url, None))
OnRequest == \E url \in RequestUrls \cup {UrlEmpty} : Deliver("request", url, None)

\* page.on("response", lambda resp: maybe_add("response", resp.url, ...))
OnResponse == \E ev \in ResponseEvents : Deliver("response", ev[1], ev[2])

(***************************************************************************)
(* run(): session set-up and navigation.                                   *)
(***************************************************************************)
\* an exception leaves the async-with block
Raise ==
    /\ pending' = "exception"
    /\ pc' = "aexit"

\* pw.chromium.launch(...)
Launch ==
    /\ pc = "launch"
    /\ \/ /\ browser' = "open"
          /\ pc' = "new_page"
          /\ UNCHANGED pending
       \/ /\ Raise
          /\ UNCHANGED browser
    /\ UNCHANGED << optVars, nav, obsVars, elapsed, actVars, closeCalls,
                    teardowns, endVars >>

\* browser.new_context(...) and context.new_page()
NewPage ==
    /\ pc = "new_page"
    /\ \/ /\ pc' = "goto"
          /\ UNCHANGED pending
       \/ Raise
    /\ UNCHANGED << optVars, nav, obsVars, elapsed, actVars, sessVars, endVars >>

\* the errors the except clause of the navigation catches
CaughtAny(e) == TRUE

Caught(e) == e = "PWTimeout"

\* where the handler of a caught navigation error goes
AfterNavTimeoutGoOn == "consent"

AfterNavTimeout == "nav_close"

\* page.goto(...) ending with error e
GotoFails(e) ==
    /\ nav' = IF e = "PWTimeout" THEN "timeout" ELSE "error"
    /\ IF Caught(e)
       THEN /\ stderr' = TimedOutMsg
            /\ pc' = AfterNavTimeout
            /\ UNCHANGED pending
       ELSE /\ Raise
            /\ UNCHANGED stderr

Goto ==
    /\ pc = "goto"
    /\ \/ /\ nav' = "ok"
          /\ pc' = "consent"
          /\ UNCHANGED << pending, stderr >>
       \/ \E e \in {"PWTimeout", "Error"} : GotoFails(e)
    /\ UNCHANGED << optVars, obsVars, elapsed, actVars, sessVars, exit,
                    exitStatus, session_info >>

\* the effect of browser.close() on the browser
BrowserClosed(b) == "closed"

\* browser.close(); sys.exit(1) in the timeout handler
NavClose ==
    /\ pc = "nav_close"
    /\ \/ /\ teardowns' = IF browser = "open" THEN teardowns + 1 ELSE teardowns
          /\ browser' = BrowserClosed(browser)
          /\ closeCalls' = closeCalls + 1
          /\ pending' = "sys_exit"
       \/ /\ pending' = "exception"
          /\ UNCHANGED sessVars
    /\ pc' = "aexit"
    /\ UNCHANGED << optVars, nav, obsVars, elapsed, actVars, endVars >>

\* the consent banner block: every error in it is swallowed
Consent ==
    /\ pc = "consent"
    /\ pc' = "register"
    /\ UNCHANGED << optVars, nav, obsVars, elapsed, actVars, sessVars, pending,
                    endVars >>


(***************************************************************************)
(* collect_manifests(page, wait_ms, click_after_ms, debug)                 *)
(***************************************************************************)
Min(a, b) == IF a < b THEN a ELSE b
Max(a, b) == IF a > b THEN a ELSE b

\* page.on("request", ...); page.on("response", ...); start = now_ms()
Register ==
    /\ pc = "register"
    /\ registered' = TRUE
    /\ elapsed' = 0
    /\ pc' = "wait_dcl"
    /\ UNCHANGED << optVars, nav, found, nEvents, issued, firsts,
                    actVars, sessVars, pending, endVars >>

\* page.wait_for_load_state("domcontentloaded"), outside any try
WaitDomContentLoaded ==
    /\ pc = "wait_dcl"
    /\ \/ /\ pc' = "wait_netidle"
          /\ UNCHANGED pending
       \/ Raise
    /\ UNCHANGED << optVars, nav, obsVars, elapsed, actVars, sessVars, endVars >>

\* page.wait_for_load_state("networkidle"); a PWTimeout is caught
WaitNetworkIdle ==
    /\ pc = "wait_netidle"
    /\ \/ /\ pc' = "idle_wait"       \* idle, or except PWTimeout: pass
          /\ UNCHANGED pending
       \/ Raise
    /\ UNCHANGED << optVars, nav, obsVars, elapsed, actVars, sessVars, endVars >>

\* remaining = max(0, wait_ms - (now_ms() - start)) at time e
Remaining(e) == Max(0, wait_ms - e)

\* the final grace period is skipped once a candidate is in the ledger
AfterObservingEarly(e) ==
    IF Remaining(e) # 0 /\ found = << >> THEN "final_wait" ELSE "storage_state"

\* if remaining: await page.wait_for_timeout(remaining); return found
AfterObserving(e) == IF Remaining(e) # 0 THEN "final_wait" ELSE "storage_state"

NothingYetAlways == TRUE

\* if not found:
NothingYet == found = << >>

\* page.wait_for_timeout(min(wait_ms, 8000)), then the test of the ledger
IdleWait ==
    /\ pc = "idle_wait"
    /\ \/ /\ elapsed' = elapsed + Min(wait_ms, IdleCapMs)
          /\ IF NothingYet
             THEN /\ pc' = "query"
                  /\ frame' = 0
                  /\ sel' = 1
                  /\ actCalls' = actCalls + 1
                  /\ gesture' = "none"
             ELSE /\ pc' = AfterObserving(elapsed')
                  /\ UNCHANGED actVars
          /\ UNCHANGED pending
       \/ /\ Raise
          /\ UNCHANGED << elapsed, actVars >>
    /\ UNCHANGED << optVars, nav, obsVars, sessVars, endVars >>

(***************************************************************************)
(* click_play_in_frame(frame, extra_wait_ms, debug)                        *)
(***************************************************************************)
\* the call returns (True or False): the next child frame, or the wait
\* after all the clicks
Return ==
    /\ gesture' = "none"
    /\ IF frame < nFrames
       THEN /\ frame' = frame + 1
            /\ sel' = 1
            /\ actCalls' = actCalls + 1
            /\ pc' = "query"
       ELSE /\ pc' = "post_clicks_wait"
            /\ UNCHANGED << frame, sel, actCalls >>

ReturnFalseRaises ==
    /\ Raise
    /\ UNCHANGED actVars

\* except Exception: return False
ReturnFalse ==
    /\ Return
    /\ UNCHANGED pending

\* except Exception: continue -- the next selector, or the final resort
Continue ==
    /\ gesture' = "none"
    /\ IF sel < NumSelectors
       THEN /\ sel' = sel + 1
            /\ pc' = "query"
       ELSE /\ sel' = sel
            /\ pc' = "evaluate"
    /\ UNCHANGED << frame, actCalls >>

\* el = await frame.query_selector(sel)
QuerySelector ==
    /\ pc = "query"
    /\ \/ /\ pc' = "click"              \* an element
          /\ UNCHANGED actVars
       \/ Continue                      \* None, or the call raised
    /\ UNCHANGED << optVars, nav, obsVars, elapsed, sessVars, pending, endVars >>

\* await el.click(timeout=2000)
Click ==
    /\ pc = "click"
    /\ \/ /\ pc' = "post_click"
          /\ gesture' = "click"
       \/ /\ pc' = "focus"             \* except Exception:
          /\ UNCHANGED gesture
    /\ UNCHANGED << optVars, nav, obsVars, elapsed, frame, sel, actCalls,
                    sessVars, pending, endVars >>

\* try: await el.focus() / except Exception: pass
Focus ==
    /\ pc = "focus"
    /\ pc' = "press"
    /\ UNCHANGED << optVars, nav, obsVars, elapsed, actVars, sessVars, pending,
                    endVars >>

\* try: await frame.keyboard.press("Space") / except Exception: pass
Press ==
    /\ pc = "press"
    /\ pc' = "post_click"
    /\ gesture' \in {"space", "failed"}
    /\ UNCHANGED << optVars, nav, obsVars, elapsed, frame, sel, actCalls,
                    sessVars, pending, endVars >>

\* await frame.wait_for_timeout(extra_wait_ms); return True
PostClick ==
    /\ pc = "post_click"
    /\ \/ /\ elapsed' = elapsed + click_after_ms
          /\ Return
       \/ /\ Continue
          /\ UNCHANGED elapsed
    /\ UNCHANGED << optVars, nav, obsVars, sessVars, pending, endVars >>

\* box = await frame.evaluate(...)
Evaluate ==
    /\ pc = "evaluate"
    /\ \/ /\ pc' = "mouse"
          /\ UNCHANGED << actVars, pending >>
       \/ ReturnFalse
    /\ UNCHANGED << optVars, nav, obsVars, elapsed, sessVars, endVars >>

\* await frame.mouse.click(box["w"]/2, box["h"]/2)
MouseClick ==
    /\ pc = "mouse"
    /\ \/ /\ pc' = "fallback_wait"
          /\ gesture' = "center"
          /\ UNCHANGED << frame, sel, actCalls, pending >>
       \/ ReturnFalse
    /\ UNCHANGED << optVars, nav, obsVars, elapsed, sessVars, endVars >>

\* await frame.wait_for_timeout(extra_wait_ms); return True
FallbackWait ==
    /\ pc = "fallback_wait"
    /\ \/ /\ elapsed' = elapsed + click_after_ms
          /\ Return
          /\ UNCHANGED pending
       \/ /\ ReturnFalse
          /\ UNCHANGED elapsed
    /\ UNCHANGED << optVars, nav, obsVars, sessVars, endVars >>

\* await page.wait_for_timeout(max(1500, click_after_ms))
PostClicksWait ==
    /\ pc = "post_clicks_wait"
    /\ \/ /\ elapsed' = elapsed + Max(MinPostClickMs, click_after_ms)
          /\ pc' = AfterObserving(elapsed')
          /\ UNCHANGED pending
       \/ /\ Raise
          /\ UNCHANGED elapsed
    /\ UNCHANGED << optVars, nav, obsVars, actVars, sessVars, endVars >>

\* await page.wait_for_timeout(remaining); return found
FinalWait ==
    /\ pc = "final_wait"
    /\ \/ /\ elapsed' = elapsed + Remaining(elapsed)
          /\ pc' = "storage_state"
          /\ UNCHANGED pending
       \/ /\ Raise
          /\ UNCHANGED elapsed
    /\ UNCHANGED << optVars, nav, obsVars, actVars, sessVars, endVars >>


(***************************************************************************)
(* run(): teardown and result.                                             *)
(***************************************************************************)
\* await context.storage_state(path=...)
StorageState ==
    /\ pc = "storage_state"
    /\ \/ /\ pc' = "close"
          /\ UNCHANGED pending
       \/ Raise
    /\ UNCHANGED << optVars, nav, obsVars, elapsed, actVars, sessVars, endVars >>

\* await browser.close(), the last statement of the async-with block
Close ==
    /\ pc = "close"
    /\ \/ /\ teardowns' = IF browser = "open" THEN teardowns + 1 ELSE teardowns
          /\ browser' = BrowserClosed(browser)
          /\ closeCalls' = closeCalls + 1
          /\ UNCHANGED pending
       \/ /\ pending' = "exception"
          /\ UNCHANGED sessVars
    /\ pc' = "aexit"
    /\ UNCHANGED << optVars, nav, obsVars, elapsed, actVars, endVars >>

\* a playwright that is left running leaves its browser as it is
PlaywrightLeftRunning(b) == b

\* what stopping playwright does to a browser it launched
PlaywrightStop(b) == IF b = "open" THEN "closed" ELSE b

\* async with async_playwright() as pw: -- __aexit__, on every way out
AExit ==
    /\ pc = "aexit"
    /\ browser' = PlaywrightStop(browser)
    /\ teardowns' = IF browser = "open" /\ browser' = "closed"
                    THEN teardowns + 1 ELSE teardowns
    /\ UNCHANGED closeCalls
    /\ CASE pending = "exception" ->
              /\ exit' = "exception"
              /\ exitStatus' = ExitFailure
              /\ pc' = "done"
         [] pending = "sys_exit" ->
              /\ exit' = "sys_exit"
              /\ exitStatus' = ExitFailure
              /\ pc' = "done"
         [] OTHER ->
              /\ pc' = "finish"
              /\ UNCHANGED << exit, exitStatus >>
    /\ UNCHANGED << optVars, nav, obsVars, elapsed, actVars, pending, stderr,
                    session_info >>

\* an empty ledger is written out as a result without a manifest
ResultOfSoft(manifests) ==
    IF manifests = << >>
    THEN [exit |-> "returned", status |-> ExitSuccess, stderr |-> "none",
          info |-> [written |-> TRUE, manifest_url |-> << >>,
                    all_manifests |-> manifests]]
    ELSE [exit |-> "returned", status |-> ExitSuccess, stderr |-> "none",
          info |-> [written |-> TRUE, manifest_url |-> manifests[1]["url"],
                    all_manifests |-> manifests]]

\* the no-manifest exit reports success
ResultOfZero(manifests) ==
    IF manifests = << >>
    THEN [exit |-> "sys_exit", status |-> ExitSuccess,
          stderr |-> NoManifestMsg, info |-> NoInfo]
    ELSE [exit |-> "returned", status |-> ExitSuccess, stderr |-> "none",
          info |-> [written |-> TRUE, manifest_url |-> manifests[1]["url"],
                    all_manifests |-> manifests]]

\* the primary is the last candidate
ResultOfLast(manifests) ==
    IF manifests = << >>
    THEN [exit |-> "sys_exit", status |-> ExitFailure,
          stderr |-> NoManifestMsg, info |-> NoInfo]
    ELSE [exit |-> "returned", status |-> ExitSuccess, stderr |-> "none",
          info |-> [written |-> TRUE,
                    manifest_url |-> manifests[Len(manifests)]["url"],
                    all_manifests |-> manifests]]

\* if not manifests: print(...); sys.exit(1)
\* primary = manifests[0]["url"]; write_json(session_info_path, out)
ResultOf(manifests) ==
    IF manifests = << >>
    THEN [exit |-> "sys_exit", status |-> ExitFailure,
          stderr |-> NoManifestMsg, info |-> NoInfo]
    ELSE [exit |-> "returned", status |-> ExitSuccess, stderr |-> "none",
          info |-> [written |-> TRUE, manifest_url |-> manifests[1]["url"],
                    all_manifests |-> manifests]]

\* the statements after the async-with block
Finish ==
    /\ pc = "finish"
    /\ pc' = "done"
    /\ \/ LET r == ResultOf(found)
          IN  /\ exit' = r.exit
              /\ exitStatus' = r.status
              /\ stderr' = r.stderr
              /\ session_info' = r.info
       \/ /\ found # << >>              \* write_json raises
          /\ exit' = "exception"
          /\ exitStatus' = ExitFailure
          /\ UNCHANGED << stderr, session_info >>
    /\ UNCHANGED << optVars, nav, obsVars, elapsed, actVars, sessVars, pending >>

Next ==
    \/ OnRequest
    \/ OnResponse
    \/ Launch
    \/ NewPage
    \/ Goto
    \/ NavClose
    \/ Consent
    \/ Register
    \/ WaitDomContentLoaded
    \/ WaitNetworkIdle
    \/ IdleWait
    \/ QuerySelector
    \/ Click
    \/ Focus
    \/ Press
    \/ PostClick
    \/ Evaluate
    \/ MouseClick
    \/ FallbackWait
    \/ PostClicksWait
    \/ FinalWait
    \/ StorageState
    \/ Close
    \/ AExit
    \/ Finish

Spec == Init /\ [][Next]_vars

Done == pc = "done"


(***************************************************************************)
(* Vocabulary of the properties.                                           *)
(***************************************************************************)
\* the terminal outcome a finished run reports, in the words of the design:
\* a written session_info is FOUND, the two handled failures are the two
\* sys.exit(1) endings, anything else is no outcome at all
Outcome ==
    IF session_info.written THEN "FOUND"
    ELSE IF exit = "sys_exit" /\ stderr = TimedOutMsg THEN "NAVIGATION_FAILED"
    ELSE IF exit = "sys_exit" /\ stderr = NoManifestMsg THEN "DEADLINE_EXCEEDED"
    ELSE "NONE"

\* the URL up to its query string
StripQuery(url) ==
    LET q == {i \in 1..Len(url) : url[i] = "?"}
    IN  IF q = {} THEN url
        ELSE SubSeq(url, 1, (CHOOSE i \in q : \A j \in q : i <= j) - 1)

Contains(url, word) ==
    \E i \in 1..Len(url) :
        /\ i + Len(word) - 1 <= Len(url)
        /\ SubSeq(url, i, i + Len(word) - 1) = word

Master == <<"m","a","s","t","e","r">>

\* the awaits of click_play_in_frame and the wait that follows the clicks
ActivationPcs ==
    { "query", "click", "focus", "press", "post_click", "evaluate", "mouse",
      "fallback_wait", "post_clicks_wait" }

\* the controller moves on to another await
Moves == << pc, frame, sel >>' # << pc, frame, sel >>

(***************************************************************************)
(* C1 (as stated): when navigation succeeded and the ledger is empty at    *)
(* the end of the run, the run returns normally with a result whose        *)
(* manifest_url is absent; it never ends by an exception or abnormal exit. *)
(* Stated for the runs in which no browser call raised.                    *)
(***************************************************************************)
C1_ResultEvenWhenEmpty ==
    (Done /\ nav = "ok" /\ found = << >> /\ pending = "none")
        => /\ exit = "returned"
           /\ session_info.written
           /\ session_info.manifest_url = << >>

(***************************************************************************)
(* C1 (amended): when navigation succeeded and the ledger is empty at the  *)
(* end of the run, no result is written at all; the run ends with exit     *)
(* status 1, either by sys.exit(1) after printing the no-manifest error or *)
(* by an exception of a browser call that propagated out of run.           *)
(***************************************************************************)
C1_EmptyLedgerExitsWithFailure ==
    (Done /\ nav = "ok" /\ found = << >>)
        => /\ ~session_info.written
           /\ exit \in {"sys_exit", "exception"}
           /\ exitStatus = ExitFailure
           /\ exit = "sys_exit" => stderr = NoManifestMsg /\ elapsed >= wait_ms

C1_Witness ==
    /\ Done /\ nav = "ok" /\ found = << >> /\ registered
    /\ exit = "sys_exit" /\ elapsed >= wait_ms /\ actCalls > 0

(***************************************************************************)
(* C2 (as stated): when navigation raises a connection-level error, the    *)
(* run ends with outcome NAVIGATION_FAILED and no activation attempt was   *)
(* made.                                                                   *)
(***************************************************************************)
C2_NavErrorIsNavigationFailed ==
    (Done /\ nav = "error") => (Outcome = "NAVIGATION_FAILED" /\ actCalls = 0)

(***************************************************************************)
(* C2 (amended): when navigation raises a connection-level error, the      *)
(* error is not handled: it propagates out of run (no outcome is reported, *)
(* nothing is printed or written); the handlers are never registered and   *)
(* no activation attempt is made.                                          *)
(***************************************************************************)
C2_NavErrorPropagates ==
    nav = "error"
        => /\ actCalls = 0
           /\ ~registered
           /\ pending = "exception"
           /\ Done => /\ exit = "exception"
                      /\ Outcome = "NONE"
                      /\ stderr = "none"

C2_Witness == Done /\ nav = "error" /\ exit = "exception" /\ nEvents > 0

(***************************************************************************)
(* C3 (as stated): when navigation times out the run is not aborted: the   *)
(* controller still enters the observing phase (registers the handlers and *)
(* observes), so a run whose navigation timed out ends having observed.    *)
(***************************************************************************)
C3_NavTimeoutStillObserves ==
    (Done /\ nav = "timeout") => registered

(***************************************************************************)
(* C3 (amended): when navigation times out the run is aborted: the error   *)
(* is printed, the browser is closed and the run exits with status 1; the  *)
(* handlers are never registered, no candidate is recorded and no result   *)
(* is written.                                                             *)
(***************************************************************************)
C3_NavTimeoutAborts ==
    nav = "timeout"
        => /\ ~registered
           /\ found = << >>
           /\ actCalls = 0
           /\ stderr = TimedOutMsg
           /\ Done => /\ ~session_info.written
                      /\ exitStatus = ExitFailure
                      /\ browser = "closed"

C3_Witness ==
    Done /\ nav = "timeout" /\ exit = "sys_exit" /\ issued # {} /\ found = << >>

(***************************************************************************)
(* C4 (as stated): the three terminal outcomes have pairwise distinct exit *)
(* signals; in particular a run that ends with navigation failed, or with  *)
(* a manifest found, exits with a status other than the one of the         *)
(* no-manifest ending.                                                     *)
(***************************************************************************)
C4_DistinctExitSignals ==
    (Done /\ Outcome \in {"NAVIGATION_FAILED", "FOUND"})
        => exitStatus # ResultOf(<< >>).status

(***************************************************************************)
(* C4 (amended): only success is signalled distinctly: the run exits with  *)
(* status 0 exactly when it wrote a result; the navigation-timeout ending  *)
(* and the no-manifest ending both exit with status 1 and differ only in   *)
(* the message printed.                                                    *)
(***************************************************************************)
C4_SuccessVersusFailure ==
    Done => /\ (exitStatus = ExitSuccess) <=> (session_info.written /\ exit = "returned")
            /\ (exit = "sys_exit" /\ nav = "timeout")
                  => (exitStatus = ExitFailure /\ stderr = TimedOutMsg)
            /\ (exit = "sys_exit" /\ nav = "ok")
                  => (exitStatus = ExitFailure /\ stderr = NoManifestMsg)

C4_Witness ==
    /\ Done /\ Outcome = "NAVIGATION_FAILED"
    /\ exitStatus = ResultOf(<< >>).status

(***************************************************************************)
(* C5: once the browser has been launched, every way out of the run        *)
(* (success, navigation timeout, navigation error, no candidate, an        *)
(* exception while observing or while saving the session state) leaves it  *)
(* closed, and it is closed exactly once.                                  *)
(***************************************************************************)
C5_ClosedExactlyOnce ==
    /\ teardowns <= 1
    /\ closeCalls <= 1
    /\ (Done /\ browser # "none") => (browser = "closed" /\ teardowns = 1)

C5_Witness ==
    /\ Done /\ registered /\ exit = "exception"
    /\ closeCalls = 0 /\ browser = "closed" /\ teardowns = 1

(***************************************************************************)
(* C6 (as stated): the ledger never holds two candidates whose URLs differ *)
(* only in their query string.                                             *)
(***************************************************************************)
C6_OnePerUrlWithoutQuery ==
    \A i, j \in 1..Len(found) :
        i # j => StripQuery(found[i].url) # StripQuery(found[j].url)

(***************************************************************************)
(* C6 (amended): the ledger is deduplicated by the exact URL, query string *)
(* included: it never holds two candidates with the same URL, and each     *)
(* candidate is the first observation of its URL (its content type and     *)
(* its source are those of that observation), in order of discovery; two   *)
(* URLs that differ only in their query string are two candidates.         *)
(***************************************************************************)
C6_OnePerExactUrlFirstWins ==
    /\ \A i, j \in 1..Len(found) : i # j => found[i].url # found[j].url
    /\ found = firsts

C6_Witness ==
    /\ Len(found) = 2
    /\ found[1] = Candidate("response", UrlMasterA, CtHls)
    /\ found[2] = Candidate("request", UrlMasterB, None)

(***************************************************************************)
(* C7 (as stated): when the ledger holds a candidate whose URL contains    *)
(* 'master' and one whose URL does not, the manifest_url of the result is  *)
(* a 'master' one, whatever the order of discovery.                        *)
(***************************************************************************)
C7_MasterPreferred ==
    session_info.written =>
        LET all == session_info.all_manifests
        IN  ( /\ \E i \in 1..Len(all) : Contains(all[i].url, Master)
              /\ \E i \in 1..Len(all) : ~Contains(all[i].url, Master) )
                => Contains(session_info.manifest_url, Master)

(***************************************************************************)
(* C7 (amended): the manifest_url of the result is always the              *)
(* earliest-discovered candidate of the ledger, whether or not its URL or  *)
(* another candidate's contains 'master' or 'index'; the result lists the  *)
(* whole ledger.                                                           *)
(***************************************************************************)
C7_FirstCandidateChosen ==
    session_info.written
        => /\ found # << >>
           /\ session_info.all_manifests = found
           /\ session_info.manifest_url = found[1].url
           /\ found[1] = firsts[1]

C7_Witness ==
    /\ session_info.written
    /\ Len(found) = 2
    /\ ~Contains(found[1].url, Master)
    /\ Contains(found[2].url, Master)
    /\ session_info.manifest_url = found[1].url

(***************************************************************************)
(* C8 (as stated): if the page issues a request with a manifest URL at any *)
(* moment from the start of navigation up to the deadline, the run ends    *)
(* with a result whose manifest_url is that URL.  Stated for the runs in   *)
(* which navigation succeeded, nothing raised, the page requested exactly  *)
(* one manifest URL and nothing else was recorded.                         *)
(***************************************************************************)
C8_RequestedManifestIsFound ==
    \A u \in issued :
        ( /\ Done /\ nav = "ok" /\ exit # "exception"
          /\ issued = {u}
          /\ Urls(found) \subseteq {u} )
            => /\ session_info.written
               /\ session_info.manifest_url = u

(***************************************************************************)
(* C9 (as stated): once a candidate has been recorded, the controller      *)
(* starts no further activation action and no further timed wait: with a  *)
(* non-empty ledger it never moves on to another of them.                  *)
(***************************************************************************)
C9_LeavesWhenResolved ==
    [][ (found # << >> /\ Moves)
            => pc' \notin (ActivationPcs \cup {"idle_wait", "final_wait"}) ]_vars

(***************************************************************************)
(* C9 (amended): a non-empty ledger does not end the observing phase:      *)
(* collect_manifests returns only when wait_ms has elapsed since the       *)
(* handlers were registered, candidate or not.  The ledger is looked at    *)
(* once, at the end of the idle wait: the activation phase starts only on  *)
(* an empty ledger.                                                        *)
(***************************************************************************)
C9_WaitsOutTheBudget ==
    /\ [](pc \in {"storage_state", "close"} => elapsed >= wait_ms)
    /\ [][ (pc = "idle_wait" /\ pc' = "query") => found = << >> ]_vars

C9_Witness ==
    /\ pc = "final_wait" /\ found # << >> /\ actCalls = 0
    /\ elapsed < wait_ms

(***************************************************************************)
(* C10 (as stated): the deadline is authoritative: no activation action    *)
(* or post-click wait is started once wait_ms has elapsed since the        *)
(* observation started, and the observing phase lasts no longer than       *)
(* wait_ms plus one bounded action.                                        *)
(***************************************************************************)
C10_DeadlineAuthoritative ==
    /\ pc \in ActivationPcs => elapsed < wait_ms
    /\ pc = "storage_state"
          => elapsed <= wait_ms + Max(MinPostClickMs, click_after_ms)

(***************************************************************************)
(* looks_like_m3u8 on its own.  One call: the arguments are drawn from     *)
(* URLs built as stem + extension + tail and from a set of content-type    *)
(* header values; Classify applies the function as the code computes it.   *)
(***************************************************************************)
DotM3u8 == <<".", "m", "3", "u", "8">>
DotMpd  == <<".", "m", "p", "d">>
WordM3u8 == <<"m", "3", "u", "8">>

ClsStems == { << >>, <<"a">>, <<"a", "/", "b">>, <<"p", "?", "u", "=">> }
ClsExts  == { DotM3u8, <<".", "M", "3", "U", "8">>, DotMpd, WordM3u8,
              <<".", "j", "s">> }
ClsTails == { << >>, <<"?", "t">>, <<"#", "f">>, <<"/", "s">>, <<"x">> }

ClsUrls == { st \o ex \o tl : st \in ClsStems, ex \in ClsExts, tl \in ClsTails }

MimeDash == "application/dash+xml"

ClsCts == { None, CtAbsent, CtHls, CtHtml,
            <<"application/vnd.apple.mpegurl">>,
            <<" ", "audio/mpegurl", " ", ";", "q=1">>,
            <<"application/x-mpegurl">>,
            <<MimeDash>>, <<MimeDash, ";", "charset=utf-8">> }

InitClassify ==
    /\ pc = "classify"
    /\ wait_ms = 2000
    /\ click_after_ms = 1000
    /\ nFrames = 0
    /\ Fresh
    /\ cUrl \in ClsUrls
    /\ cCt \in ClsCts
    /\ cOut = "unset"

Classify ==
    /\ pc = "classify"
    /\ cOut' = IF looks_like_m3u8(cUrl, cCt) THEN "accept" ELSE "reject"
    /\ pc' = "classified"
    /\ UNCHANGED << wait_ms, click_after_ms, nFrames, cUrl, cCt, handlerError,
                    nav, obsVars, elapsed, actVars, sessVars, pending, endVars >>

NextClassify == Classify

SpecClassify == InitClassify /\ [][NextClassify]_vars

Classified == pc = "classified"

\* the URL, or its part before the query string, ends in ext
EndsIn(url, ext) ==
    LET ends(u) == Len(u) >= Len(ext)
                   /\ SubSeq(u, Len(u) - Len(ext) + 1, Len(u)) = ext
    IN  ends(url) \/ ends(StripQuery(url))

LowerCase(url) == [i \in 1..Len(url) |->
                      CASE url[i] = "M" -> "m" [] url[i] = "U" -> "u"
                        [] OTHER -> url[i]]

\* the media type of a header value: what stands before the first ";",
\* blanks aside; "" when the header is absent or empty
MediaTypeOf(ct) ==
    IF ct = None THEN ""
    ELSE LET semi == {i \in 1..Len(ct) : ct[i] = ";"}
             stop == IF semi = {} THEN Len(ct) + 1
                     ELSE CHOOSE i \in semi : \A j \in semi : i <= j
             words == SelectSeq(SubSeq(ct, 1, stop - 1), LAMBDA t : t # " ")
         IN  IF Len(words) = 1 THEN words[1] ELSE ""

HlsMimes == {"application/vnd.apple.mpegurl", "application/x-mpegURL",
             "audio/mpegurl"}

\* ".m3u8", in any letter case, directly followed by "?" or by the end
DotM3u8ThenQueryOrEnd(url) ==
    \E i \in 1..Len(url) :
        /\ i + 4 <= Len(url)
        /\ SubSeq(LowerCase(url), i, i + 4) = DotM3u8
        /\ (i + 4 = Len(url) \/ url[i + 5] = "?")

(***************************************************************************)
(* C11  (as stated) Every URL that ends in ".m3u8", with or without a      *)
(* trailing "?query", is accepted, and so is every URL that ends in        *)
(* ".mpd", with or without a trailing "?query".                            *)
(***************************************************************************)
C11_M3u8AndMpdAccepted ==
    Classified /\ (EndsIn(cUrl, DotM3u8) \/ EndsIn(cUrl, DotMpd))
        => cOut = "accept"

(***************************************************************************)
(* C11  Every URL that ends in ".m3u8", with or without a trailing         *)
(* "?query", is accepted as an HLS candidate.  There is no DASH kind: a    *)
(* URL that ends in ".mpd", holds no ".m3u8" and comes without a content   *)
(* type is rejected.                                                       *)
(***************************************************************************)
C11_M3u8AcceptedMpdNot ==
    Classified =>
        /\ EndsIn(cUrl, DotM3u8) => cOut = "accept"
        /\ ( /\ EndsIn(cUrl, DotMpd)
             /\ ~Contains(LowerCase(cUrl), DotM3u8)
             /\ MediaTypeOf(cCt) = "" )
           => cOut = "reject"

C11_Witness ==
    /\ Classified
    /\ cUrl = <<"a", ".", "m", "3", "u", "8", "?", "t">>
    /\ cCt = None
    /\ cOut = "accept"

(***************************************************************************)
(* C12  (as stated) Whatever the URL, a content type whose media type      *)
(* (parameters after ";" ignored) is a known manifest MIME type, HLS or    *)
(* DASH, makes the classifier accept.                                      *)
(***************************************************************************)
C12_KnownMimeAccepted ==
    Classified /\ MediaTypeOf(cCt) \in HlsMimes \cup {MimeDash}
        => cOut = "accept"

(***************************************************************************)
(* C12  Whatever the URL, a content type whose media type (parameters      *)
(* after ";" and surrounding blanks ignored) is one of the three HLS MIME  *)
(* types, spelled exactly, makes the classifier accept.  The DASH MIME     *)
(* type is not known to it: with it, a URL that holds no ".m3u8" is        *)
(* rejected.                                                               *)
(***************************************************************************)
C12_HlsMimeAcceptedDashNot ==
    Classified =>
        /\ MediaTypeOf(cCt) \in HlsMimes => cOut = "accept"
        /\ (MediaTypeOf(cCt) = MimeDash /\ ~Contains(LowerCase(cUrl), DotM3u8))
           => cOut = "reject"

C12_Witness ==
    /\ Classified
    /\ cUrl = <<"a", ".", "j", "s">>
    /\ cCt = <<" ", "audio/mpegurl", " ", ";", "q=1">>
    /\ cOut = "accept"

(***************************************************************************)
(* C13  (as stated) Every URL that contains "m3u8" anywhere is accepted,   *)
(* even with no content type.                                              *)
(***************************************************************************)
C13_SubstringAccepted ==
    Classified /\ Contains(cUrl, WordM3u8) => cOut = "accept"

(***************************************************************************)
(* C13  With no content type, a URL is accepted exactly when it holds      *)
(* ".m3u8", in any letter case, directly followed by "?" or by the end of  *)
(* the URL.  "m3u8" elsewhere (without the dot, before a "#fragment",      *)
(* before a further path segment) does not make it a candidate.            *)
(***************************************************************************)
C13_DotM3u8BeforeQueryOrEnd ==
    Classified /\ MediaTypeOf(cCt) = ""
        => (cOut = "accept" <=> DotM3u8ThenQueryOrEnd(cUrl))

C13_Witness ==
    /\ Classified
    /\ cUrl = <<"p", "?", "u", "=", ".", "M", "3", "U", "8">>
    /\ cCt = None
    /\ cOut = "accept"

(***************************************************************************)
(* C14  (as stated) The request and response handlers are registered on    *)
(* the page before navigation to the target URL begins: once page.goto     *)
(* has been called the handlers are in place, so no request of the page    *)
(* precedes the registration.                                              *)
(***************************************************************************)
C14_RegisteredBeforeNavigation ==
    /\ (pc = "goto" \/ nav # "pending") => registered
    /\ issued # {} => registered

(***************************************************************************)
(* C15  Once the handlers are registered, a manifest request or response   *)
(* delivered at any await of the controller is recorded: every candidate   *)
(* URL handled since the registration is in the ledger, at every moment    *)
(* and in the list written at the end.                                     *)
(***************************************************************************)
C15_NoCandidateLost ==
    /\ Urls(firsts) \subseteq Urls(found)
    /\ session_info.written
          => Urls(firsts) \subseteq Urls(session_info.all_manifests)

C15_Witness ==
    /\ pc = "post_click"
    /\ frame = 1
    /\ Len(found) = 1
    /\ found[1].source = "response"

(***************************************************************************)
(* C16  The ledger is append-only and checks and inserts in one step: it   *)
(* never holds two entries with the same URL, every entry has a non-empty  *)
(* URL, every entry stays what its first observation made it, and each     *)
(* earlier content of the ledger is a prefix of each later one.            *)
(***************************************************************************)
C16_AppendOnlyLedger ==
    /\ [] /\ \A i, j \in 1..Len(found) : i # j => found[i].url # found[j].url
          /\ \A i \in 1..Len(found) : found[i].url # << >>
          /\ Len(firsts) = Len(found)
          /\ \A i \in 1..Len(found) : found[i] = firsts[i]
    /\ [][ /\ Len(found') >= Len(found)
           /\ SubSeq(found', 1, Len(found)) = found ]_vars

C16_Witness ==
    /\ nEvents >= 2
    /\ issued = {UrlMasterA}
    /\ found = << Candidate("response", UrlMasterA, CtHls) >>

(***************************************************************************)
(* The two handlers on their own, fed events whose handling may fail: the  *)
(* read of the event's url, the read of the response headers, the call of  *)
(* looks_like_m3u8 or found.append raises.  The lambdas and maybe_add hold *)
(* no try/except, so the exception leaves the handler; nothing was         *)
(* appended, and the handler stays registered.                             *)
(***************************************************************************)
MaxHandled == 3

RequestFaults  == {"none", "url", "classify", "record"}
ResponseFaults == {"none", "url", "headers", "classify", "record"}

\* the state after page.on(...) of a run whose navigation succeeded
InitHandler ==
    /\ pc = "wait_dcl"
    /\ wait_ms = 2000
    /\ click_after_ms = 1000
    /\ nFrames = 0
    /\ nav = "ok"
    /\ registered = TRUE
    /\ browser = "open"
    /\ found = << >>
    /\ firsts = << >>
    /\ issued = {}
    /\ nEvents = 0
    /\ handlerError = "none"
    /\ elapsed = 0
    /\ frame = 0 /\ sel = 0 /\ actCalls = 0 /\ gesture = "none"
    /\ closeCalls = 0 /\ teardowns = 0
    /\ pending = "none"
    /\ stderr = "none" /\ exit = "running" /\ exitStatus = -1
    /\ session_info = NoInfo
    /\ NoCall

\* one event handled; fault names the step of the handler that raises
Handle(kind, url, ct, fault) ==
    /\ Listening
    /\ nEvents < MaxHandled
    /\ nEvents' = nEvents + 1
    /\ handlerError' = fault
    /\ IF fault = "none"
       THEN /\ found' = maybe_add(found, kind, url, ct)
            /\ firsts' = IF url # << >> /\ looks_like_m3u8(url, ct)
                            /\ url \notin Urls(firsts)
                         THEN Append(firsts, Candidate(kind, url, ct))
                         ELSE firsts
       ELSE UNCHANGED << found, firsts >>
    /\ UNCHANGED << pc, wait_ms, click_after_ms, nFrames, clsVars, nav,
                    registered, issued, elapsed, actVars, sessVars, pending,
                    endVars >>

HandleRequest ==
    \E url \in RequestUrls \cup {UrlEmpty}, fault \in RequestFaults :
        Handle("request", url, None, fault)

HandleResponse ==
    \E ev \in ResponseEvents, fault \in ResponseFaults :
        Handle("response", ev[1], ev[2], fault)

NextHandler == HandleRequest \/ HandleResponse

SpecHandler == InitHandler /\ [][NextHandler]_vars

(***************************************************************************)
(* C17  (as stated) An error raised while an event is handled (reading     *)
(* its URL or headers, classifying it, recording it) is swallowed inside   *)
(* the handler: no error leaves a handler, the event leaves the ledger as  *)
(* it was, and later events are still handled.                             *)
(***************************************************************************)
C17_HandlerSwallowsErrors ==
    /\ [](handlerError = "none")
    /\ [][handlerError' # "none" => found' = found]_vars
    /\ [](nEvents < MaxHandled => ENABLED HandleRequest)

(***************************************************************************)
(* C18  (as stated) Within one frame the activator stops at the first      *)
(* strategy that succeeds, and a strategy succeeds only if its action      *)
(* completed without an error: the attempt on a frame ends after a         *)
(* selector only if the click or the key-press went through; a selector    *)
(* whose click and key-press both failed does not stop the sequence, the   *)
(* next step is the next selector or the click at the frame's center.      *)
(***************************************************************************)
C18_StopsOnlyOnSuccess ==
    [][ (pc = "post_click" /\ gesture = "failed" /\ pc' # pc)
            => /\ pc' \in {"query", "evaluate"}
               /\ frame' = frame
               /\ actCalls' = actCalls ]_vars

(***************************************************************************)
(* C19  The activator never raises to its caller: whatever fails in a      *)
(* frame, no step of click_play_in_frame lets an exception out, the        *)
(* attempt returns and the controller goes on to the next frame and, after *)
(* the last one, to the wait that follows the clicks; by then the page and *)
(* every child frame have had their attempt.                               *)
(***************************************************************************)
C19_ActivatorNeverRaises ==
    /\ [][ (pc \in ActivationPcs \ {"post_clicks_wait"})
              => /\ pending' = pending
                 /\ pc' \in ActivationPcs
                 /\ frame' \in {frame, frame + 1} ]_vars
    /\ [](pc = "post_clicks_wait" => (frame = nFrames /\ actCalls = nFrames + 1))

C19_Witness ==
    /\ pc = "post_clicks_wait"
    /\ nFrames >= 1
    /\ actCalls = nFrames + 1
    /\ elapsed = Min(wait_ms, IdleCapMs)
    /\ found = << >>

(***************************************************************************)
(* C20  Activation is gated on the ledger: click_play_in_frame is first    *)
(* called at the end of the idle wait and only if the ledger is empty      *)
(* then; it is then called once on the page and once on each child frame,  *)
(* in that order.  With a candidate recorded by the end of the idle wait   *)
(* no activation step is taken on any frame in that run.                   *)
(***************************************************************************)
C20_ActivationGatedOnLedger ==
    /\ [][ actCalls' # actCalls
              => /\ actCalls' = actCalls + 1
                 /\ frame' = actCalls
                 /\ pc' = "query"
                 /\ actCalls = 0 => (pc = "idle_wait" /\ found = << >>) ]_vars
    /\ [][ (pc = "idle_wait" /\ pc' # pc /\ found # << >>)
              => (actCalls' = 0 /\ pc' \notin ActivationPcs) ]_vars
    /\ [] /\ actCalls <= nFrames + 1
          /\ (pc \in ActivationPcs) => actCalls = frame + 1
          /\ (pc \in {"final_wait", "storage_state"} /\ pending = "none")
                => actCalls \in {0, nFrames + 1}

C20_Witness ==
    /\ pc = "storage_state"
    /\ found # << >>
    /\ actCalls = 0
    /\ nFrames >= 1

=============================================================================
